---- MODULE Spec2Model ----
(***************************************************************************)
(* datatoolbelt: frequency / entropy statistics (pandastools.py,           *)
(* pdtools.py) and table combination (join_dataframes_by_index,            *)
(* union_dataframes_by_name).  Every function is pure, so the state is     *)
(* the argument of one call, the name of the function called and the       *)
(* value it returned.                                                      *)
(*                                                                         *)
(* Numbers.  The results of entropy are real numbers of the form           *)
(*     (SUM_p num[p] * log2(p)) / den,   p ranging over the primes,        *)
(* which is exact because log2 of an integer is the sum of the log2 of its *)
(* prime factors (log2(2) = 1 carries the rational part).  The r and R     *)
(* columns of freq are rationals <<numerator, denominator>>.  Both are     *)
(* kept in lowest terms, so equal numbers are equal values.  Rounding of   *)
(* float64 is not modelled.                                                *)
(***************************************************************************)
EXTENDS Integers, Sequences, FiniteSets, TLC

VARIABLES values, dropna, dataframes, pc, op, result

vars == <<values, dropna, dataframes, pc, op, result>>

----------------------------------------------------------------------------
(* Bounds of the model *)

\* longest value collection passed to entropy / freq / mode
MaxLen == 5

\* the missing-value marker (None / NaN)
NA == "NA"

\* the non-missing values a collection is drawn from
Alphabet == {"a", "b", "c"}

Value == Alphabet \cup {NA}

\* the result of a call that has not happened
NoResult == [kind |-> "none"]

----------------------------------------------------------------------------
(* Integer helpers *)

Abs(x) == IF x < 0 THEN -x ELSE x

RECURSIVE GCD(_, _)
GCD(a, b) == IF b = 0 THEN Abs(a) ELSE GCD(b, a % b)

RECURSIVE SumSeq(_)
SumSeq(s) == IF s = <<>> THEN 0 ELSE Head(s) + SumSeq(Tail(s))

\* all sequences over S of length at most n
SeqsUpTo(S, n) == UNION {[1..k -> S] : k \in 0..n}

----------------------------------------------------------------------------
(* Rationals: r = n / total and its cumulative sum *)

Frac(n, d) == LET g == GCD(n, d) IN <<n \div g, d \div g>>

FracAdd(x, y) == Frac(x[1] * y[2] + y[1] * x[2], x[2] * y[2])

----------------------------------------------------------------------------
(* Reals of the form (SUM_p num[p] * log2(p)) / den, and NaN *)

\* the primes that can divide a count or a total
Primes == {p \in 2..(MaxLen + 1) : \A d \in 2..(p - 1) : p % d # 0}

ZeroVec == [p \in Primes |-> 0]

RECURSIVE Exponent(_, _)
Exponent(p, n) == IF n % p # 0 THEN 0 ELSE 1 + Exponent(p, n \div p)

NaN == [nan |-> TRUE, num |-> ZeroVec, den |-> 0]

\* the gcd of the coefficients num[p] of the primes p <= k
RECURSIVE GCDVec(_, _)
GCDVec(num, k) ==
    IF k < 2 THEN 0
    ELSE GCD(IF k \in Primes THEN num[k] ELSE 0, GCDVec(num, k - 1))

\* num / den in lowest terms, den > 0
Real(num, den) ==
    LET g == GCD(den, GCDVec(num, MaxLen + 1))
    IN [nan |-> FALSE,
        num |-> [p \in Primes |-> num[p] \div g],
        den |-> den \div g]

Zero == Real(ZeroVec, 1)

\* np.log2 of a positive integer
log2(n) == Real([p \in Primes |-> Exponent(p, n)], 1)

RealScale(k, x) == Real([p \in Primes |-> k * x.num[p]], x.den)

RealAdd(x, y) ==
    Real([p \in Primes |-> x.num[p] * y.den + y.num[p] * x.den], x.den * y.den)

RealSub(x, y) == RealAdd(x, RealScale(-1, y))

RealDiv(x, k) == Real(x.num, x.den * k)

RECURSIVE RealSum(_)
RealSum(s) == IF s = <<>> THEN Zero ELSE RealAdd(Head(s), RealSum(Tail(s)))

----------------------------------------------------------------------------
(* pandas.Series.value_counts *)

Count(vals, v) == Cardinality({i \in 1..Len(vals) : vals[i] = v})

\* the distinct values of vals in order of first occurrence (the order of
\* the hash table value_counts fills)
RECURSIVE Unique(_)
Unique(vals) ==
    IF vals = <<>> THEN <<>>
    ELSE LET init == SubSeq(vals, 1, Len(vals) - 1)
             last == vals[Len(vals)]
             u == Unique(init)
         IN IF \E i \in 1..Len(u) : u[i] = last THEN u ELSE Append(u, last)

notna(v) == v # NA

\* a sort by descending n that puts a row before the rows of equal n
RECURSIVE SortDescTiesReversed(_)
SortDescTiesReversed(rows) ==
    IF rows = <<>> THEN <<>>
    ELSE LET rest == SortDescTiesReversed(SubSeq(rows, 1, Len(rows) - 1))
             row == rows[Len(rows)]
             before == SelectSeq(rest, LAMBDA x : x.n > row.n)
             after == SelectSeq(rest, LAMBDA x : x.n <= row.n)
         IN before \o <<row>> \o after

\* rows sorted by descending n; rows of equal n keep their order
RECURSIVE InsertDesc(_, _)
InsertDesc(sorted, row) ==
    IF sorted = <<>> THEN <<row>>
    ELSE IF Head(sorted).n >= row.n
         THEN <<Head(sorted)>> \o InsertDesc(Tail(sorted), row)
         ELSE <<row>> \o sorted

RECURSIVE SortDesc(_)
SortDesc(rows) ==
    IF rows = <<>> THEN <<>>
    ELSE InsertDesc(SortDesc(SubSeq(rows, 1, Len(rows) - 1)), rows[Len(rows)])

\* pd.Series(vals).value_counts(normalize=False, sort=sort, ascending=False,
\* dropna=drop): one row [label, n] per distinct value
value_counts(vals, sort, drop) ==
    LET kept == IF drop THEN SelectSeq(vals, notna) ELSE vals
        u == Unique(kept)
        rows == [i \in 1..Len(u) |-> [label |-> u[i], n |-> Count(kept, u[i])]]
    IN IF sort THEN SortDesc(rows) ELSE rows

----------------------------------------------------------------------------
(* pandastools.entropy *)

\* (counts * np.log2(counts)).sum()
SumCLog2C(counts) ==
    RealSum([i \in 1..Len(counts) |-> RealScale(counts[i], log2(counts[i]))])

\* np.log2(total) - (counts * np.log2(counts)).sum() / total
general_formula(counts) ==
    LET total == SumSeq(counts)
    IN RealSub(log2(total), RealDiv(SumCLog2C(counts), total))

\* -(probs * np.log2(probs)).sum() with probs = counts / total, as the
\* tests compute the expected entropy; log2(c / t) = log2(c) - log2(t)
neg_sum_p_log2_p(counts) ==
    LET total == SumSeq(counts)
        term(c) == RealDiv(RealScale(c, RealSub(log2(c), log2(total))), total)
    IN RealScale(-1, RealSum([i \in 1..Len(counts) |-> term(counts[i])]))

\* the fast path of entropy drops the log2: returns total, not log2(total)
entropy_no_log(vals) ==
    IF Len(vals) = 0 THEN NaN
    ELSE LET vc == value_counts(vals, FALSE, FALSE)
             counts == [i \in 1..Len(vc) |-> vc[i].n]
         IN IF Len(counts) = 1 THEN Zero
            ELSE LET total == SumSeq(counts)
                 IN IF Len(counts) = total
                    THEN RealScale(total, log2(2))
                    ELSE general_formula(counts)

\* entropy without the guard for the empty collection: the single-value
\* branch answers instead
entropy_no_empty_guard(vals) ==
    LET vc == value_counts(vals, FALSE, FALSE)
        counts == [i \in 1..Len(vc) |-> vc[i].n]
    IN IF Len(counts) <= 1 THEN Zero
       ELSE LET total == SumSeq(counts)
            IN IF Len(counts) = total
               THEN log2(total)
               ELSE general_formula(counts)

entropy(vals) ==
    IF Len(vals) = 0 THEN NaN
    ELSE LET vc == value_counts(vals, FALSE, FALSE)
             counts == [i \in 1..Len(vc) |-> vc[i].n]
         IN IF Len(counts) = 1 THEN Zero
            ELSE LET total == SumSeq(counts)
                 IN IF Len(counts) = total
                    THEN log2(total)
                    ELSE general_formula(counts)

\* entropy(values, dropna): missing entries are excluded before the
\* distribution is computed when dropna is true
entropy_dropna(vals, drop) ==
    entropy(IF drop THEN SelectSeq(vals, notna) ELSE vals)

----------------------------------------------------------------------------
(* pandastools.freq and pdtools.freq *)

\* Series.cumsum of integers
RECURSIVE cumsum(_)
cumsum(s) ==
    IF s = <<>> THEN <<>>
    ELSE LET init == cumsum(SubSeq(s, 1, Len(s) - 1))
         IN Append(init, (IF init = <<>> THEN 0 ELSE init[Len(init)]) + s[Len(s)])

\* Series.cumsum of rationals
RECURSIVE cumsumFrac(_)
cumsumFrac(s) ==
    IF s = <<>> THEN <<>>
    ELSE LET init == cumsumFrac(SubSeq(s, 1, Len(s) - 1))
         IN Append(init, IF init = <<>> THEN s[Len(s)]
                         ELSE FracAdd(init[Len(init)], s[Len(s)]))

\* DataFrame(data=counts, columns=["n"]).assign(N=..., r=..., R=...):
\* one row [label, n, N, r, R] per row of counts, in the order of counts
assign(vc) ==
    LET n == [i \in 1..Len(vc) |-> vc[i].n]
        N == cumsum(n)
        total == SumSeq(n)
        r == [i \in 1..Len(vc) |-> Frac(n[i], total)]
        R == cumsumFrac(r)
    IN [i \in 1..Len(vc) |->
          [label |-> vc[i].label, n |-> n[i], N |-> N[i], r |-> r[i], R |-> R[i]]]

\* freq with value_counts(sort=False): rows in order of first occurrence
freq_unsorted(vals) == assign(value_counts(vals, FALSE, FALSE))

\* freq with value_counts(dropna=True): the missing marker loses its row
freq_drops_na(vals) == assign(value_counts(vals, TRUE, TRUE))

\* freq with r = n / len(df) (the number of rows, not the sum of n)
freq_r_by_rows(vals) ==
    LET vc == value_counts(vals, TRUE, FALSE)
        n == [i \in 1..Len(vc) |-> vc[i].n]
        N == cumsum(n)
        r == [i \in 1..Len(vc) |-> Frac(n[i], Len(vc))]
        R == cumsumFrac(r)
    IN [i \in 1..Len(vc) |->
          [label |-> vc[i].label, n |-> n[i], N |-> N[i], r |-> r[i], R |-> R[i]]]

freq(vals) == assign(value_counts(vals, TRUE, FALSE))

pdtools_freq(vals) == assign(value_counts(vals, TRUE, FALSE))

\* freq(values, dropna): missing entries are excluded before counting when
\* dropna is true
freq_dropna(vals, drop) ==
    freq(IF drop THEN SelectSeq(vals, notna) ELSE vals)

----------------------------------------------------------------------------
(* pandastools.mode *)

Max(S) == CHOOSE x \in S : \A y \in S : y <= x

\* the missing result of mode
None == [kind |-> "None"]

\* mode(values, dropna): the most frequent value and its count; among the
\* values sharing the largest count, the one met first in the collection
mode(vals, drop) ==
    LET kept == IF drop THEN SelectSeq(vals, notna) ELSE vals
    IN IF Len(kept) = 0 THEN None
       ELSE LET top == Max({Count(kept, kept[i]) : i \in 1..Len(kept)})
                first == CHOOSE i \in 1..Len(kept) :
                            /\ Count(kept, kept[i]) = top
                            /\ \A j \in 1..(i - 1) : Count(kept, kept[j]) # top
            IN [kind |-> "pair", value |-> kept[first], count |-> top]

----------------------------------------------------------------------------
(* Labeled tables and columns *)

\* An optional value: Some(x) holds x, Nothing is the missing value (NaN in
\* a cell, None as the name of a column object).
Some(x) == <<x>>

Nothing == <<>>

\* the name pd.DataFrame gives the column of an unnamed Series: the integer
\* 0, written as a string like the other column names
Placeholder == "0"

Error(type) == [kind |-> "error", type |-> type]

DataFrame(index, columns, data) ==
    [kind |-> "DataFrame", index |-> index, columns |-> columns, data |-> data]

Series(index, name, data) ==
    [kind |-> "Series", index |-> index, name |-> name, data |-> data]

\* a list given as one argument
List(items) == [kind |-> "list", items |-> items]

\* bumbag.core.flatten: the tables and columns of arbitrarily nested lists,
\* in their order
RECURSIVE flatten(_)
flatten(items) ==
    IF items = <<>> THEN <<>>
    ELSE (IF Head(items).kind = "list"
          THEN flatten(Head(items).items)
          ELSE <<Head(items)>>) \o flatten(Tail(items))

\* pd.DataFrame(obj): a table is kept; a column becomes the table of one
\* column under its name, or under 0 when it has none
to_frame(obj) ==
    IF obj.kind = "Series"
    THEN DataFrame(obj.index,
                   <<IF obj.name = Nothing THEN Placeholder ELSE obj.name[1]>>,
                   [i \in 1..Len(obj.index) |-> <<obj.data[i]>>])
    ELSE obj

RECURSIVE ConcatAll(_)
ConcatAll(seqs) == IF seqs = <<>> THEN <<>> ELSE Head(seqs) \o ConcatAll(Tail(seqs))

AllEqual(seqs) == \A k \in 1..Len(seqs) : seqs[k] = seqs[1]

HasDuplicates(s) == \E i, j \in 1..Len(s) : i # j /\ s[i] = s[j]

Position(s, x) == CHOOSE i \in 1..Len(s) : s[i] = x

Contains(s, x) == \E i \in 1..Len(s) : s[i] = x

\* the labels of the axis the inputs are aligned on: the common label
\* sequence when all inputs have the same, else the union of the labels
combined_axis(axes) ==
    IF AllEqual(axes) THEN axes[1] ELSE Unique(ConcatAll(axes))

\* an input whose labels differ from the combined ones is reindexed, which
\* pandas refuses for an axis holding a label twice
cannot_reindex(axes) ==
    ~AllEqual(axes) /\ \E k \in 1..Len(axes) : HasDuplicates(axes[k])

\* pd.concat(frames, axis=1): the columns of all inputs side by side, the
\* rows aligned by row label (outer join)
concat_axis1(frames) ==
    IF frames = <<>> THEN Error("ValueError")
    ELSE LET axes == [k \in 1..Len(frames) |-> frames[k].index]
         IN IF cannot_reindex(axes) THEN Error("InvalidIndexError")
            ELSE LET index == combined_axis(axes)
                     part(k, i) ==
                        IF AllEqual(axes) THEN frames[k].data[i]
                        ELSE IF Contains(axes[k], index[i])
                             THEN frames[k].data[Position(axes[k], index[i])]
                             ELSE [j \in 1..Len(frames[k].columns) |-> Nothing]
                 IN DataFrame(
                      index,
                      ConcatAll([k \in 1..Len(frames) |-> frames[k].columns]),
                      [i \in 1..Len(index) |->
                         ConcatAll([k \in 1..Len(frames) |-> part(k, i)])])

\* pd.concat(frames, axis=0): the rows of all inputs one after the other,
\* the columns aligned by column name (outer join)
concat_axis0(frames) ==
    IF frames = <<>> THEN Error("ValueError")
    ELSE LET axes == [k \in 1..Len(frames) |-> frames[k].columns]
         IN IF cannot_reindex(axes) THEN Error("InvalidIndexError")
            ELSE LET columns == combined_axis(axes)
                     row(k, i) ==
                        IF AllEqual(axes) THEN frames[k].data[i]
                        ELSE [c \in 1..Len(columns) |->
                                IF Contains(axes[k], columns[c])
                                THEN frames[k].data[i][Position(axes[k], columns[c])]
                                ELSE Nothing]
                 IN DataFrame(
                      ConcatAll([k \in 1..Len(frames) |-> frames[k].index]),
                      columns,
                      ConcatAll([k \in 1..Len(frames) |->
                                   [i \in 1..Len(frames[k].index) |-> row(k, i)]]))

frames_of(args) ==
    LET flat == flatten(args) IN [k \in 1..Len(flat) |-> to_frame(flat[k])]

\* join keeping only the row labels every input has (join="inner")
join_inner(args) ==
    LET frames == frames_of(args)
        full == concat_axis1(frames)
        common(i) == \A k \in 1..Len(frames) : Contains(frames[k].index, full.index[i])
        keep == {i \in 1..Len(full.index) : common(i)}
        pick == SelectSeq([i \in 1..Len(full.index) |-> i], LAMBDA i : i \in keep)
    IN IF full.kind = "error" THEN full
       ELSE DataFrame([i \in 1..Len(pick) |-> full.index[pick[i]]],
                      full.columns,
                      [i \in 1..Len(pick) |-> full.data[pick[i]]])

\* join dropping a column whose name an earlier column has
join_dedup_columns(args) ==
    LET full == concat_axis1(frames_of(args))
        first(j) == \A m \in 1..(j - 1) : full.columns[m] # full.columns[j]
        pick == SelectSeq([j \in 1..Len(full.columns) |-> j], first)
    IN IF full.kind = "error" THEN full
       ELSE DataFrame(full.index,
                      [j \in 1..Len(pick) |-> full.columns[pick[j]]],
                      [i \in 1..Len(full.index) |->
                         [j \in 1..Len(pick) |-> full.data[i][pick[j]]]])

\* join answering a call without tables with an empty table
join_empty_table(args) ==
    IF flatten(args) = <<>> THEN DataFrame(<<>>, <<>>, <<>>)
    ELSE concat_axis1(frames_of(args))

join_dataframes_by_index(args) == concat_axis1(frames_of(args))

\* union renumbering the rows (ignore_index=True)
union_ignore_index(args) ==
    LET full == concat_axis0(frames_of(args))
    IN IF full.kind = "error" THEN full
       ELSE DataFrame([i \in 1..Len(full.index) |-> i - 1], full.columns, full.data)

union_dataframes_by_name(args) == concat_axis0(frames_of(args))

----------------------------------------------------------------------------
(* The tables and columns the combination functions are called with *)

\* most rows of an input
MaxRows == 2

\* most tables and columns in one call, after flattening
MaxTables == 2

RowLabels == {0, 1}

ColumnNames == {<<"a", "b">>, <<"c", "d">>}

SeriesNames == {Nothing, Some("a")}

Indexes == SeqsUpTo(RowLabels, MaxRows) \ {<<>>}

\* the cell in row i of the column called name: rows differ, columns
\* differ, and two inputs with a column of the same name hold equal cells
\* at equal positions
Code(name) ==
    CASE name = "a" -> 1 [] name = "b" -> 2 [] name = "c" -> 3 [] name = "d" -> 4
      [] OTHER -> 0

CellAt(i, name) == Some(10 * i + Code(name))

Inputs ==
    {DataFrame(index, columns,
               [i \in 1..Len(index) |->
                  [j \in 1..Len(columns) |-> CellAt(i, columns[j])]]) :
        index \in Indexes, columns \in ColumnNames}
    \cup
    {Series(index, name,
            [i \in 1..Len(index) |->
               CellAt(i, IF name = Nothing THEN Placeholder ELSE name[1])]) :
        index \in Indexes, name \in SeriesNames}

\* the ways the inputs objs are passed: one argument each; all in one
\* list; all but the last in a list and the last on its own (with nothing
\* to pass: no argument, an empty list, empty and nested empty lists)
Arguments(objs, nesting) ==
    CASE nesting = "each" -> objs
      [] nesting = "list" -> <<List(objs)>>
      [] nesting = "mixed" ->
           IF objs = <<>> THEN <<List(<<>>), List(<<List(<<>>)>>)>>
           ELSE <<List(SubSeq(objs, 1, Len(objs) - 1)), objs[Len(objs)]>>

InitTables ==
    /\ \E objs \in SeqsUpTo(Inputs, MaxTables), nesting \in {"each", "list", "mixed"} :
          dataframes = Arguments(objs, nesting)
    /\ values = <<>>
    /\ dropna = TRUE
    /\ pc = "dataframes"
    /\ op = "none"
    /\ result = NoResult

CallJoin ==
    /\ pc = "dataframes"
    /\ pc' = "done"
    /\ op' = "join_dataframes_by_index"
    /\ result' = join_dataframes_by_index(dataframes)
    /\ UNCHANGED <<values, dropna, dataframes>>

CallUnion ==
    /\ pc = "dataframes"
    /\ pc' = "done"
    /\ op' = "union_dataframes_by_name"
    /\ result' = union_dataframes_by_name(dataframes)
    /\ UNCHANGED <<values, dropna, dataframes>>

NextTables == CallJoin \/ CallUnion

SpecTables == InitTables /\ [][NextTables]_vars

----------------------------------------------------------------------------
(* The calls on a value collection *)

InitValues ==
    /\ values \in SeqsUpTo(Value, MaxLen)
    /\ dropna \in BOOLEAN
    /\ dataframes = <<>>
    /\ pc = "values"
    /\ op = "none"
    /\ result = NoResult

Return(name, r) ==
    /\ pc' = "done"
    /\ op' = name
    /\ result' = r
    /\ UNCHANGED <<values, dropna, dataframes>>

CallEntropy == pc = "values" /\ Return("entropy", entropy(values))

CallEntropyDropna ==
    pc = "values" /\ Return("entropy_dropna", entropy_dropna(values, dropna))

CallFreq == pc = "values" /\ Return("freq", freq(values))

CallPdtoolsFreq == pc = "values" /\ Return("pdtools_freq", pdtools_freq(values))

CallFreqDropna ==
    pc = "values" /\ Return("freq_dropna", freq_dropna(values, dropna))

CallMode == pc = "values" /\ Return("mode", mode(values, dropna))

NextValues ==
    \/ CallEntropy
    \/ CallEntropyDropna
    \/ CallFreq
    \/ CallPdtoolsFreq
    \/ CallFreqDropna
    \/ CallMode

SpecValues == InitValues /\ [][NextValues]_vars

----------------------------------------------------------------------------
(* The library: one call of any of its functions *)

Init == InitValues \/ InitTables

Next == NextValues \/ NextTables

Spec == Init /\ [][Next]_vars

----------------------------------------------------------------------------
(* Properties of entropy, freq and mode *)

\* the collection the statistics are taken over: for the functions with a
\* dropna argument the non-missing entries when dropna is true
Kept ==
    IF op \in {"entropy_dropna", "freq_dropna", "mode"} /\ dropna
    THEN SelectSeq(values, notna)
    ELSE values

PairwiseDistinct(s) == \A i, j \in 1..Len(s) : s[i] = s[j] => i = j

\* position of the first occurrence of v in s
FirstIndex(s, v) == CHOOSE i \in 1..Len(s) : s[i] = v /\ \A j \in 1..(i - 1) : s[j] # v

OnEntropy == pc = "done" /\ op \in {"entropy", "entropy_dropna"}

OnFreq == pc = "done" /\ op \in {"freq", "pdtools_freq", "freq_dropna"}

C2_EntropyOfDistinct ==
    (OnEntropy /\ Len(Kept) >= 1 /\ PairwiseDistinct(Kept)) =>
        LET k == Len(Kept)
            counts == [i \in 1..k |-> 1]
        IN /\ result = log2(k)
           /\ general_formula(counts) = result
           /\ neg_sum_p_log2_p(counts) = result

C2_Witness ==
    /\ pc = "done" /\ op = "entropy"
    /\ Len(values) = 4 /\ PairwiseDistinct(values)
    /\ result = [nan |-> FALSE, num |-> [p \in Primes |-> IF p = 2 THEN 2 ELSE 0],
                 den |-> 1]

\* sum of column n over the first i rows of table t
RECURSIVE RunningN(_, _)
RunningN(t, i) == IF i = 0 THEN 0 ELSE RunningN(t, i - 1) + t[i].n

\* C3: in the table of freq the sum of n is the length of the collection
\* after the dropna filter, N is the running sum of n in row order, r is
\* n / total and R the running sum of r, so the last row has N = total and
\* R = 1.
C3_FreqSums ==
    OnFreq =>
        LET t == result
            total == Len(Kept)
        IN /\ RunningN(t, Len(t)) = total
           /\ \A i \in 1..Len(t) :
                /\ t[i].N = RunningN(t, i)
                /\ t[i].r[1] * total = t[i].n * t[i].r[2]
                /\ t[i].R[1] * total = RunningN(t, i) * t[i].R[2]
                /\ t[i].r[2] > 0 /\ t[i].R[2] > 0
           /\ Len(t) > 0 => (t[Len(t)].N = total /\ t[Len(t)].R = <<1, 1>>)

C3_Witness ==
    /\ pc = "done" /\ op = "freq"
    /\ values = <<"a", "c", "b", "a", "a">>
    /\ Len(result) = 3
    /\ result[1] = [label |-> "a", n |-> 3, N |-> 3, r |-> <<3, 5>>, R |-> <<3, 5>>]
    /\ result[2] = [label |-> "c", n |-> 1, N |-> 4, r |-> <<1, 5>>, R |-> <<4, 5>>]
    /\ result[3] = [label |-> "b", n |-> 1, N |-> 5, r |-> <<1, 5>>, R |-> <<1, 1>>]

\* C4: the rows of freq are the distinct values, each once, with its
\* count, by descending count; values of equal count stand in the order of
\* their first occurrence in the collection.
C4_FreqOrder ==
    OnFreq =>
        LET t == result
        IN /\ {t[i].label : i \in 1..Len(t)} = {Kept[i] : i \in 1..Len(Kept)}
           /\ \A i, j \in 1..Len(t) : t[i].label = t[j].label => i = j
           /\ \A i \in 1..Len(t) : t[i].n = Count(Kept, t[i].label)
           /\ \A i, j \in 1..Len(t) :
                i < j =>
                    \/ t[i].n > t[j].n
                    \/ /\ t[i].n = t[j].n
                       /\ FirstIndex(Kept, t[i].label) < FirstIndex(Kept, t[j].label)

C4_Witness ==
    /\ pc = "done" /\ op = "freq"
    /\ values = <<"c", "b", "a", "b">>
    /\ [i \in 1..Len(result) |-> result[i].label] = <<"b", "c", "a">>

----------------------------------------------------------------------------
(* Properties of join_dataframes_by_index and union_dataframes_by_name *)

\* the column names an input contributes
ColumnsOf(obj) ==
    IF obj.kind = "Series"
    THEN <<IF obj.name = Nothing THEN "0" ELSE obj.name[1]>>
    ELSE obj.columns

\* the cell of an input in its row q and its column j
CellOf(obj, q, j) == IF obj.kind = "Series" THEN obj.data[q] ELSE obj.data[q][j]

LabelSet(index) == {index[i] : i \in 1..Len(index)}

\* columns, and rows, of the inputs flat[1] .. flat[k - 1]
RECURSIVE ColumnOffset(_, _)
ColumnOffset(flat, k) ==
    IF k = 1 THEN 0 ELSE ColumnOffset(flat, k - 1) + Len(ColumnsOf(flat[k - 1]))

RECURSIVE RowOffset(_, _)
RowOffset(flat, k) ==
    IF k = 1 THEN 0 ELSE RowOffset(flat, k - 1) + Len(flat[k - 1].index)

OnJoin == pc = "done" /\ op = "join_dataframes_by_index"

OnUnion == pc = "done" /\ op = "union_dataframes_by_name"

\* table is the outer join by row label of the inputs flat: its row-label
\* set is the union of the inputs' and its cells are the inputs' by label,
\* missing where an input lacks the label
OuterJoined(flat, table) ==
    /\ table.kind = "DataFrame"
    /\ LabelSet(table.index) = UNION {LabelSet(flat[k].index) : k \in 1..Len(flat)}
    /\ \A k \in 1..Len(flat) :
          LET offset == ColumnOffset(flat, k)
              labels == LabelSet(flat[k].index)
          IN \A i \in 1..Len(table.index) :
                \A j \in 1..Len(ColumnsOf(flat[k])) :
                   IF table.index[i] \in labels
                   THEN \E q \in 1..Len(flat[k].index) :
                           /\ flat[k].index[q] = table.index[i]
                           /\ table.data[i][offset + j] = CellOf(flat[k], q, j)
                   ELSE table.data[i][offset + j] = Nothing

C7_JoinColumns ==
    (OnJoin /\ result.kind = "DataFrame") =>
        LET flat == flatten(dataframes)
        IN /\ Len(result.columns) = ColumnOffset(flat, Len(flat) + 1)
           /\ \A k \in 1..Len(flat) :
                 LET offset == ColumnOffset(flat, k)
                 IN \A j \in 1..Len(ColumnsOf(flat[k])) :
                       result.columns[offset + j] = ColumnsOf(flat[k])[j]
           /\ \A i \in 1..Len(result.data) : Len(result.data[i]) = Len(result.columns)
           /\ (/\ Len(flat) = 2
               /\ flat[1].index = flat[2].index
               /\ LabelSet(ColumnsOf(flat[1])) \cap LabelSet(ColumnsOf(flat[2])) = {})
              => /\ result.index = flat[1].index
                 /\ \A i \in 1..Len(result.index), k \in 1..2 :
                       \A j \in 1..Len(ColumnsOf(flat[k])) :
                          result.data[i][ColumnOffset(flat, k) + j] = CellOf(flat[k], i, j)

C7_Witness ==
    /\ OnJoin
    /\ LET flat == flatten(dataframes)
       IN /\ Len(flat) = 2
          /\ flat[1].kind = "Series" /\ flat[1].name = Some("a")
          /\ flat[2].kind = "DataFrame" /\ flat[2].columns = <<"a", "b">>
          /\ flat[1].index = <<0, 1>> /\ flat[2].index = <<0, 1>>
    /\ result.kind = "DataFrame"
    /\ result.columns = <<"a", "a", "b">>
    /\ result.data = <<<<Some(11), Some(11), Some(12)>>,
                       <<Some(21), Some(21), Some(22)>>>>

\* C8: the rows of union's result are the inputs' rows one input after the
\* other in flattened order, each with its own label and cells: as many
\* rows as the inputs have together, no label renumbered, rows of equal
\* label or equal content all kept.
C8_UnionRows ==
    (OnUnion /\ result.kind = "DataFrame") =>
        LET flat == flatten(dataframes)
        IN /\ Len(result.index) = RowOffset(flat, Len(flat) + 1)
           /\ Len(result.data) = Len(result.index)
           /\ \A k \in 1..Len(flat) :
                 LET offset == RowOffset(flat, k)
                     columns == ColumnsOf(flat[k])
                 IN \A i \in 1..Len(flat[k].index) :
                       /\ result.index[offset + i] = flat[k].index[i]
                       /\ \A c \in 1..Len(result.columns) :
                             IF result.columns[c] \in LabelSet(columns)
                             THEN \E j \in 1..Len(columns) :
                                     /\ columns[j] = result.columns[c]
                                     /\ result.data[offset + i][c] = CellOf(flat[k], i, j)
                             ELSE result.data[offset + i][c] = Nothing

C8_Witness ==
    /\ OnUnion
    /\ LET flat == flatten(dataframes)
       IN /\ Len(flat) = 2
          /\ flat[1] = flat[2]
          /\ flat[1].kind = "DataFrame" /\ flat[1].index = <<1, 1>>
    /\ result.kind = "DataFrame"
    /\ result.index = <<1, 1, 1, 1>>
    /\ result.data[1] = result.data[3]

\* C9: join called without any table (no argument, or lists that flatten
\* to nothing) fails with a typed error; it returns no table.
C9_JoinOfNothingFails ==
    (OnJoin /\ flatten(dataframes) = <<>>) => result = Error("ValueError")

C9_Witness ==
    /\ OnJoin
    /\ dataframes = <<List(<<>>), List(<<List(<<>>)>>)>>
    /\ result.kind = "error"

====
